---- MODULE Spec2Model ----
(***************************************************************************)
(* Billing reconciliation of app/api/routes/checkout.py: the LemonSqueezy  *)
(* webhook handler, the entity store it reads and writes (users,           *)
(* subscription_plans, user_subscriptions, payments) and the processor     *)
(* that delivers signed events at least once.                              *)
(* Also the rate limiter of password recovery of app/api/routes/auth.py.    *)
(***************************************************************************)
EXTENDS Integers, Sequences, FiniteSets, TLC

VARIABLES
    secret,       \* settings.LEMON_SQUEEZY_WEBHOOK_SECRET
    subs0,        \* user_subscriptions as it was before the first delivery
    users,        \* table of User rows
    plans,        \* table subscription_plans
    subs,         \* table user_subscriptions, in insertion order (index = row id)
    payments,     \* table payments, in insertion order
    phase,        \* "idle": no request in progress; "done": a response was produced
    req,          \* the request handled last (its signature header and body)
    resp,         \* the response produced for it
    redelivered,  \* TRUE when req was the same request delivered a second time
    nDeliveries,  \* requests delivered so far
    nPaymentEvents, \* deliveries dispatched to the subscription_payment_success branch
    hs,           \* per-worker handler state of the step-wise specification
    api_key,      \* settings.LEMON_SQUEEZY_API_KEY
    store_id,     \* settings.LEMON_SQUEEZY_STORE_ID
    outbound,     \* the calls made to the processor's API, with what came back
    password_recovery_attempts, \* auth.py: email -> the list object the dict holds (0: no key)
    lists,        \* the list objects made so far, each a sequence of timestamps
    clock,        \* what time() returns, in seconds
    callers,      \* per-thread position in recover_password / check_rate_limit
    nCalls        \* calls of recover_password so far

vars == <<secret, subs0, users, plans, subs, payments, phase, req, resp, redelivered,
          nDeliveries, nPaymentEvents, hs, api_key, store_id, outbound,
          password_recovery_attempts, lists, clock, callers, nCalls>>

store == <<users, plans, subs, payments>>

\* Deliveries explored by the sequential specification.
MaxDeliveries == 2

----------------------------------------------------------------------------
(* Values *)

\* Python None, SQL NULL, a JSON key that is absent
NULL == "NULL"
\* data.get("first_subscription_item") when the key is absent
ABSENT == "ABSENT"

\* `if x` / `not x` of Python on a string or None
Truthy(x) == x # NULL /\ x # ""

\* dateutil.parser.isoparse on the date strings of the model: two spellings of
\* the same day parse to the same datetime, anything else raises.
isoparse(val) ==
    CASE val = "2024-01-01" -> "2024-01-01 00:00:00"
      [] val = "2024-02-01" -> "2024-02-01 00:00:00"
      [] val = "20240201" -> "2024-02-01 00:00:00"
      [] OTHER -> "ValueError"

parse_dt(val) ==
    IF Truthy(val)
    THEN IF isoparse(val) = "ValueError" THEN NULL ELSE isoparse(val)
    ELSE NULL

\* hmac.new(secret, raw_body, sha256).hexdigest(): the digest is determined by
\* the key and the body, and distinct (key, body) pairs give distinct digests.
hexdigest(key, raw_body) == <<key, raw_body>>

----------------------------------------------------------------------------
(* Entity store *)

UserRow(id, email, cust) == [id |-> id, email |-> email, lemon_customer_id |-> cust]

InitUsers == { UserRow("u1", "a@x.io", "c1"), UserRow("u2", "b@x.io", "c2") }

PlanRow(id, code, variant) == [id |-> id, code |-> code, lemon_variant_id |-> variant]

\* "free" is a plan that is not configured for the processor (no variant id).
InitPlans ==
    { PlanRow("p1", "pro", "v1"), PlanRow("p2", "team", "v2"), PlanRow("p3", "free", NULL) }

\* A user_subscriptions row. The uuid4 primary key is the row's position in the
\* table, as a string; created_at/updated_at are never read and are left out.
SubRow(id, user_id, plan_id, lemon_id, status, start, period_end, trial) ==
    [ id |-> id,
      user_id |-> user_id,
      subscription_plan_id |-> plan_id,
      lemon_subscription_id |-> lemon_id,
      status |-> status,
      start_date |-> start,
      current_period_end |-> period_end,
      cancel_at_period_end |-> FALSE,
      canceled_at |-> NULL,
      trial_end |-> trial ]

\* The NOT NULL columns of user_subscriptions.
SubRowAccepted(row) ==
    /\ row.user_id # NULL
    /\ row.subscription_plan_id # NULL
    /\ row.status # NULL

\* The NOT NULL columns of payments.
PaymentRowAccepted(row) ==
    /\ row.user_id # NULL
    /\ row.user_subscription_id # NULL
    /\ row.currency # NULL
    /\ row.status # NULL

\* Stores the sequential specification starts from: no subscription at all, or
\* user u1 subscribed to "pro", the subscription active or already cancelled.
SeedSubs ==
    { <<>>,
      << SubRow("1", "u1", "p1", "s1", "active", "2024-01-01 00:00:00",
                "2024-02-01 00:00:00", NULL) >>,
      << SubRow("1", "u1", "p1", "s1", "cancelled", "2024-01-01 00:00:00",
                "2024-02-01 00:00:00", NULL) >> }

----------------------------------------------------------------------------
(* Requests: the JSON envelope of an event and the X-Signature header *)

\* A body with every key absent. wellformed = FALSE is a body that is not JSON;
\* custom_data = FALSE is an envelope without meta.custom_data.
EmptyBody ==
    [ wellformed |-> TRUE, event_name |-> NULL, custom_data |-> TRUE, user_id |-> NULL,
      customer_id |-> NULL, user_email |-> NULL, variant_id |-> NULL,
      first_subscription_item |-> ABSENT, subscription_id |-> NULL, id |-> NULL,
      status |-> NULL, created_at |-> NULL, renews_at |-> NULL, trial_ends_at |-> NULL,
      order_id |-> NULL, total |-> NULL, currency |-> ABSENT, invoice_url |-> NULL ]

\* Identity hints: by internal id, by e-mail, resolving to nobody, conflicting,
\* and an envelope that carries no custom_data.
HintU1 == [custom_data |-> TRUE, user_id |-> "u1", customer_id |-> NULL, user_email |-> NULL]
HintU2 == [custom_data |-> TRUE, user_id |-> NULL, customer_id |-> NULL, user_email |-> "b@x.io"]
HintNobody == [custom_data |-> TRUE, user_id |-> "u9", customer_id |-> "c9", user_email |-> NULL]
HintNoCustomData ==
    [custom_data |-> FALSE, user_id |-> NULL, customer_id |-> "c1", user_email |-> "a@x.io"]

WithHint(b, h) ==
    [b EXCEPT !.custom_data = h.custom_data, !.user_id = h.user_id,
              !.customer_id = h.customer_id, !.user_email = h.user_email]

Event(name, h) == WithHint([EmptyBody EXCEPT !.event_name = name], h)

Hints == {HintU1, HintU2, HintNobody, HintNoCustomData}

\* first_subscription_item: absent, or an object whose subscription_id is f
SubscriptionItems == {ABSENT, "s1", "s2"}

\* subscription_created: who subscribes to which variant under which external id ...
CreatedWho ==
    { [Event("subscription_created", h) EXCEPT
          !.variant_id = v, !.first_subscription_item = f, !.status = "active",
          !.created_at = "2024-01-01", !.renews_at = "2024-02-01"] :
        h \in Hints, v \in {"v1", "v9"}, f \in SubscriptionItems }

\* ... and which fields the event carries (any of them may be absent or unparsable)
CreatedFields ==
    { [Event("subscription_created", HintU1) EXCEPT
          !.variant_id = v, !.first_subscription_item = f, !.status = st,
          !.created_at = d[1], !.renews_at = d[2], !.trial_ends_at = d[3]] :
        v \in {"v2", NULL}, f \in SubscriptionItems \cup {NULL},
        st \in {NULL, "on_trial"},
        d \in { <<NULL, NULL, NULL>>, <<"2024-01-01", "20240201", "2024-02-01">>,
                <<"2024-01-01", "not-a-date", NULL>> } }

\* subscription_updated for an external id, with each of variant, status and
\* renewal date present or absent
UpdatedFields ==
    { [Event("subscription_updated", HintU1) EXCEPT
          !.first_subscription_item = f, !.variant_id = v, !.status = st,
          !.renews_at = r] :
        f \in {"s1", "s2"}, v \in {NULL, "v2", "v9"}, st \in {NULL, "paused"},
        r \in {NULL, "2024-01-01", "not-a-date"} }

\* subscription_updated carrying the id only at the top level, or nowhere
UpdatedShapes ==
    { [Event("subscription_updated", h) EXCEPT
          !.first_subscription_item = f, !.subscription_id = s, !.status = "paused"] :
        h \in {HintU1, HintNoCustomData}, f \in {ABSENT, NULL}, s \in {NULL, "s1"} }

\* subscription_cancelled / subscription_expired read data.id, then subscription_id
EndedEvents ==
    { [Event(n, h) EXCEPT !.id = i, !.subscription_id = s] :
        n \in {"subscription_cancelled", "subscription_expired"},
        h \in {HintU1}, i \in {NULL, "s1", "s2"}, s \in {NULL, "s1"} }

PaymentFailedEvents ==
    { [Event("subscription_payment_failed", HintU1) EXCEPT !.subscription_id = s] :
        s \in {NULL, "s1", "s2"} }

\* subscription_payment_success, as a full invoice and as a bare one
PaymentSuccessEvents ==
    { [Event("subscription_payment_success", h) EXCEPT
          !.subscription_id = s, !.order_id = "O1", !.total = "1999",
          !.currency = "eur", !.created_at = "2024-02-01",
          !.invoice_url = "https://ls/i/1"] :
        h \in Hints, s \in {NULL, "s1", "s2"} }
    \cup
    { [Event("subscription_payment_success", h) EXCEPT
          !.subscription_id = "s1", !.order_id = "O2"] : h \in {HintU1, HintNobody} }

\* order_created, an event type the handler does not know, no event name at all,
\* and a body that is not JSON
OtherEvents ==
    { Event(n, h) : n \in {"order_created", "subscription_resumed", NULL},
                    h \in {HintU1, HintNoCustomData} }
    \cup { [EmptyBody EXCEPT !.wellformed = FALSE] }

Bodies ==
    CreatedWho \cup CreatedFields \cup UpdatedFields \cup UpdatedShapes
    \cup EndedEvents \cup PaymentFailedEvents \cup PaymentSuccessEvents \cup OtherEvents

\* The body as it was when the sender signed it, for a body altered afterwards.
BodyBeforeTampering(b) ==
    [b EXCEPT !.status = IF b.status = "expired" THEN "active" ELSE "expired"]

Request(sig, b) == [signature |-> sig, body |-> b]

\* What the processor sends: the hex HMAC of the body under the shared secret.
Signed(b) == Request(hexdigest("whsec", b), b)

\* What anyone else can send: no header, an empty header, a digest under another
\* key or under the empty key, a digest of the body before it was altered.
Forged(b) ==
    { Request(<<>>, b), Request(hexdigest("", b), b), Request(hexdigest("guess", b), b),
      Request(hexdigest("whsec", BodyBeforeTampering(b)), b) }

\* Bodies that would change the store if a forged request were let through.
ForgedBodies ==
    { b \in Bodies :
        /\ b.custom_data
        /\ b.wellformed
        /\ \/ (b \in CreatedWho /\ b.first_subscription_item = "s2")
           \/ (b \in PaymentSuccessEvents /\ b.subscription_id = "s1")
           \/ (b \in EndedEvents /\ b.id = "s1" /\ b.subscription_id = NULL)
           \/ b \in OtherEvents }

Requests ==
    { Signed(b) : b \in Bodies } \cup UNION { Forged(b) : b \in ForgedBodies }

----------------------------------------------------------------------------
(* Responses *)

Response(code, body) == [status_code |-> code, body |-> body]

NoResponse == Response(0, NULL)
\* raise HTTPException(status_code=401, ...)
Unauthorized == Response(401, "detail")
\* an exception that nothing catches
ServerError == Response(500, "Internal Server Error")
\* return {"ok": True}
Ok == Response(200, "ok")
\* return {"ignored": True}
Ignored == Response(200, "ignored")
\* return {"error": msg}
SoftError(msg) == Response(200, msg)

----------------------------------------------------------------------------
(* Queries *)

\* session.exec(select(User).where(...)).first(): ids and e-mails are unique, and
\* the users of the model have distinct customer ids
first_user(S) == IF S = {} THEN NULL ELSE (CHOOSE u \in S : TRUE).id

\* The resolver trying the e-mail first and the internal id last.
find_user_email_first(user_id, lemon_customer_id, user_email) ==
    LET by_email ==
            IF Truthy(user_email)
            THEN first_user({u \in users : u.email = user_email})
            ELSE NULL
        by_customer ==
            IF by_email = NULL /\ Truthy(lemon_customer_id)
            THEN first_user({u \in users : u.lemon_customer_id = lemon_customer_id})
            ELSE by_email
    IN  IF by_customer = NULL /\ Truthy(user_id)
        THEN first_user({u \in users : u.id = user_id})
        ELSE by_customer

find_user(user_id, lemon_customer_id, user_email) ==
    LET by_id ==
            IF Truthy(user_id)
            THEN first_user({u \in users : u.id = user_id})
            ELSE NULL
        by_customer ==
            IF by_id = NULL /\ Truthy(lemon_customer_id)
            THEN first_user({u \in users : u.lemon_customer_id = lemon_customer_id})
            ELSE by_id
    IN  IF by_customer = NULL /\ Truthy(user_email)
        THEN first_user({u \in users : u.email = user_email})
        ELSE by_customer

\* The lookups find_user makes, in order: each only when its input is present and
\* no earlier lookup found a user.
find_user_lookups(user_id, lemon_customer_id, user_email) ==
    LET by_id == IF Truthy(user_id) THEN <<"id">> ELSE <<>>
        found_by_id == Truthy(user_id) /\ \E u \in users : u.id = user_id
        by_customer ==
            IF ~found_by_id /\ Truthy(lemon_customer_id) THEN <<"lemon_customer_id">> ELSE <<>>
        found_by_customer ==
            \/ found_by_id
            \/ (Truthy(lemon_customer_id)
                /\ \E u \in users : u.lemon_customer_id = lemon_customer_id)
        by_email ==
            IF ~found_by_customer /\ Truthy(user_email) THEN <<"email">> ELSE <<>>
    IN  by_id \o by_customer \o by_email

\* select(SubscriptionPlan).where(lemon_variant_id == variant_id).first(); a
\* variant_id of None compiles to IS NULL
plan_by_variant(variant_id) ==
    LET found == {p \in plans : p.lemon_variant_id = variant_id}
    IN  IF found = {} THEN NULL ELSE (CHOOSE p \in found : TRUE).id

\* The lookup filtering on the row's own key instead of its owner.
subs_of_user_by_row_id(table, user_id) == {i \in DOMAIN table : table[i].id = user_id}

\* The rows select(UserSubscription).where(user_id == ...) returns. The query has
\* no ORDER BY: .first() is any one of them.
subs_of_user(table, user_id) == {i \in DOMAIN table : table[i].user_id = user_id}

\* The rows select(UserSubscription).where(lemon_subscription_id == ...) returns,
\* which the handlers run only "if subscription_id".
subs_by_lemon_id(table, subscription_id) ==
    IF Truthy(subscription_id)
    THEN {i \in DOMAIN table : table[i].lemon_subscription_id = subscription_id}
    ELSE {}

\* The check with compare_digest left out: any non-empty header passes.
verify_signature_header_only(r) ==
    /\ Truthy(secret)
    /\ r.signature # <<>>

\* The check with the digest keyed by whatever key the sender used.
verify_signature_unkeyed(r) ==
    /\ Truthy(secret)
    /\ r.signature # <<>>
    /\ \E key \in {"", "guess", "whsec"} : hexdigest(key, r.body) = r.signature

\* 1. Verify signature
verify_signature(r) ==
    /\ Truthy(secret)
    /\ r.signature # <<>>
    /\ hexdigest(secret, r.body) = r.signature

----------------------------------------------------------------------------
(* What each event writes *)

\* UserSubscription(user_id=..., ...) of subscription_created
created_row(id, user, plan, data) ==
    SubRow(id, user, plan, data.first_subscription_item, data.status,
           parse_dt(data.created_at), parse_dt(data.renews_at),
           parse_dt(data.trial_ends_at))

\* the else branch of subscription_created: six assignments to the loaded row
created_update(sub, plan, data) ==
    [sub EXCEPT !.subscription_plan_id = plan,
                !.lemon_subscription_id = data.first_subscription_item,
                !.status = data.status,
                !.start_date = parse_dt(data.created_at),
                !.current_period_end = parse_dt(data.renews_at),
                !.trial_end = parse_dt(data.trial_ends_at)]

\* The assignment without its "or user_subscription.current_period_end".
updated_period_end_overwriting(sub, data) == parse_dt(data.renews_at)

\* subscription_updated on the loaded row
updated_period_end(sub, data) ==
    IF parse_dt(data.renews_at) # NULL
    THEN parse_dt(data.renews_at)
    ELSE sub.current_period_end

\* The update without its "if variant_id" and "if plan" guards.
updated_update_unguarded_plan(sub, data) ==
    [sub EXCEPT
        !.subscription_plan_id = plan_by_variant(data.variant_id),
        !.status = IF Truthy(data.status) THEN data.status ELSE @,
        !.current_period_end = updated_period_end(sub, data)]

\* The update treating "cancelled" and "expired" as final.
updated_update_terminal(sub, data) ==
    LET plan == IF Truthy(data.variant_id) THEN plan_by_variant(data.variant_id) ELSE NULL
    IN  [sub EXCEPT
            !.subscription_plan_id = IF plan # NULL THEN plan ELSE @,
            !.status = IF Truthy(data.status) /\ @ \notin {"cancelled", "expired"}
                       THEN data.status ELSE @,
            !.current_period_end = updated_period_end(sub, data)]

updated_update(sub, data) ==
    LET plan == IF Truthy(data.variant_id) THEN plan_by_variant(data.variant_id) ELSE NULL
    IN  [sub EXCEPT
            !.subscription_plan_id = IF plan # NULL THEN plan ELSE @,
            !.status = IF Truthy(data.status) THEN data.status ELSE @,
            !.current_period_end = updated_period_end(sub, data)]

\* The three branches all assigning "cancelled".
ended_status_always_cancelled(event_type) == "cancelled"

\* the status the last three branches assign
ended_status(event_type) ==
    CASE event_type = "subscription_cancelled" -> "cancelled"
      [] event_type = "subscription_expired" -> "expired"
      [] event_type = "subscription_payment_failed" -> "payment_failed"

\* the external id those branches look the row up by
ended_subscription_id(data) ==
    IF data.event_name = "subscription_payment_failed"
    THEN data.subscription_id
    ELSE IF Truthy(data.id) THEN data.id ELSE data.subscription_id

\* Payment(...) of subscription_payment_success
payment_row(user, user_subscription, data) ==
    [ user_id |-> user,
      user_subscription_id |-> user_subscription,
      lemon_order_id |-> data.order_id,
      amount_in_cents |-> data.total,
      currency |-> IF data.currency = ABSENT THEN "usd" ELSE data.currency,
      status |-> "succeeded",
      paid_at |-> parse_dt(data.created_at),
      receipt_url |-> data.invoice_url ]

----------------------------------------------------------------------------
(* The handler, one request in one session *)

\* Leave without a commit: the session's transaction is rolled back on close.
Reply(r) ==
    /\ resp' = r
    /\ UNCHANGED <<subs, payments>>

\* session.add(sub); session.commit(): the INSERT fails on a NULL in a NOT NULL
\* column, and the exception leaves the handler.
InsertSub(row) ==
    IF SubRowAccepted(row)
    THEN /\ subs' = Append(subs, row)
         /\ payments' = payments
         /\ resp' = Ok
    ELSE Reply(ServerError)

\* session.commit() after assignments to the loaded row i
UpdateSub(i, row) ==
    IF SubRowAccepted(row)
    THEN /\ subs' = [subs EXCEPT ![i] = row]
         /\ payments' = payments
         /\ resp' = Ok
    ELSE Reply(ServerError)

\* A commit that keeps one Payment per external order, replacing the earlier one.
InsertPayment_replacing_order(row) ==
    IF PaymentRowAccepted(row)
    THEN /\ payments' =
                IF \E i \in DOMAIN payments : payments[i].lemon_order_id = row.lemon_order_id
                THEN [i \in DOMAIN payments |->
                         IF payments[i].lemon_order_id = row.lemon_order_id
                         THEN row ELSE payments[i]]
                ELSE Append(payments, row)
         /\ subs' = subs
         /\ resp' = Ok
    ELSE Reply(ServerError)

\* session.add(payment); session.commit()
InsertPayment(row) ==
    IF PaymentRowAccepted(row)
    THEN /\ payments' = Append(payments, row)
         /\ subs' = subs
         /\ resp' = Ok
    ELSE Reply(ServerError)

subscription_created(data, user) ==
    IF data.first_subscription_item = ABSENT
    THEN Reply(ServerError)
    ELSE LET plan == plan_by_variant(data.variant_id)
         IN  IF plan = NULL
             THEN Reply(SoftError("Plan not found"))
             ELSE IF user = NULL
             THEN Reply(SoftError("User not found"))
             ELSE IF subs_of_user(subs, user) = {}
             THEN InsertSub(created_row(ToString(Len(subs) + 1), user, plan, data))
             ELSE \E i \in subs_of_user(subs, user) :
                      UpdateSub(i, created_update(subs[i], plan, data))

\* The payment branch taking the owner of the matched subscription before the
\* user the event names.
subscription_payment_success_owner_first(data, user) ==
    LET found == subs_by_lemon_id(subs, data.subscription_id)
    IN  IF found = {}
        THEN InsertPayment(payment_row(user, NULL, data))
        ELSE \E i \in found : InsertPayment(payment_row(subs[i].user_id, subs[i].id, data))

\* The payment branch inferring the user from the first row of the table rather
\* than from the row it matched.
subscription_payment_success_first_owner(data, user) ==
    LET found == subs_by_lemon_id(subs, data.subscription_id)
    IN  IF found = {}
        THEN InsertPayment(payment_row(user, NULL, data))
        ELSE \E i \in found :
                 InsertPayment(payment_row(IF user = NULL THEN subs[1].user_id ELSE user,
                                           subs[i].id, data))

subscription_payment_success(data, user) ==
    LET found == subs_by_lemon_id(subs, data.subscription_id)
    IN  IF found = {}
        THEN InsertPayment(payment_row(user, NULL, data))
        ELSE \E i \in found :
                 InsertPayment(payment_row(IF user = NULL THEN subs[i].user_id ELSE user,
                                           subs[i].id, data))

subscription_updated(data) ==
    IF data.first_subscription_item = ABSENT
    THEN Reply(ServerError)
    ELSE LET found == subs_by_lemon_id(subs, data.first_subscription_item)
         IN  IF found = {}
             THEN Reply(Ok)
             ELSE \E i \in found : UpdateSub(i, updated_update(subs[i], data))

\* The ended branch recording the cancellation on the row as well.
subscription_ended_recording_cancellation(data) ==
    LET found == subs_by_lemon_id(subs, ended_subscription_id(data))
    IN  IF found = {}
        THEN Reply(Ok)
        ELSE \E i \in found :
                 UpdateSub(i, [subs[i] EXCEPT
                                  !.status = ended_status(data.event_name),
                                  !.cancel_at_period_end =
                                      data.event_name = "subscription_cancelled",
                                  !.canceled_at =
                                      IF data.event_name = "subscription_cancelled"
                                      THEN "2024-03-01 00:00:00" ELSE @])

\* subscription_cancelled, subscription_expired, subscription_payment_failed
subscription_ended(data) ==
    LET found == subs_by_lemon_id(subs, ended_subscription_id(data))
    IN  IF found = {}
        THEN Reply(Ok)
        ELSE \E i \in found :
                 UpdateSub(i, [subs[i] EXCEPT !.status = ended_status(data.event_name)])

EndedTypes ==
    {"subscription_cancelled", "subscription_expired", "subscription_payment_failed"}

\* The if/elif chain on event_type
dispatch(data, user) ==
    CASE data.event_name = "order_created" -> Reply(Ok)
      [] data.event_name = "subscription_created" -> subscription_created(data, user)
      [] data.event_name = "subscription_payment_success" ->
             subscription_payment_success(data, user)
      [] data.event_name = "subscription_updated" -> subscription_updated(data)
      [] data.event_name \in EndedTypes -> subscription_ended(data)
      [] OTHER -> Reply(Ignored)

\* The request gets as far as the if/elif chain: it is authentic, it is JSON and
\* its envelope has meta.custom_data (else line 218 raises AttributeError).
reaches_dispatch(r) ==
    /\ verify_signature(r)
    /\ r.body.wellformed
    /\ r.body.custom_data

\* The handler signing up the user an event names when the resolver finds nobody.
lemonsqueezy_webhook_creating_user(r) ==
    LET user == find_user(r.body.user_id, r.body.customer_id, r.body.user_email)
    IN  /\ plans' = plans
        /\ users' = IF reaches_dispatch(r) /\ user = NULL
                    THEN users \cup {UserRow(r.body.user_id, r.body.user_email,
                                             r.body.customer_id)}
                    ELSE users
        /\ IF ~verify_signature(r)
           THEN Reply(Unauthorized)
           ELSE IF ~reaches_dispatch(r)
           THEN Reply(ServerError)
           ELSE dispatch(r.body, user)

\* The handler adding a plan for a variant it does not know.
lemonsqueezy_webhook_creating_plan(r) ==
    /\ users' = users
    /\ plans' = IF /\ reaches_dispatch(r)
                   /\ Truthy(r.body.variant_id)
                   /\ plan_by_variant(r.body.variant_id) = NULL
                THEN plans \cup {PlanRow("p4", "auto", r.body.variant_id)}
                ELSE plans
    /\ IF ~verify_signature(r)
       THEN Reply(Unauthorized)
       ELSE IF ~reaches_dispatch(r)
       THEN Reply(ServerError)
       ELSE dispatch(r.body,
                     find_user(r.body.user_id, r.body.customer_id, r.body.user_email))

lemonsqueezy_webhook(r) ==
    /\ UNCHANGED <<users, plans>>
    /\ IF ~verify_signature(r)
       THEN Reply(Unauthorized)
       ELSE IF ~reaches_dispatch(r)
       THEN Reply(ServerError)
       ELSE dispatch(r.body,
                     find_user(r.body.user_id, r.body.customer_id, r.body.user_email))

----------------------------------------------------------------------------
(* The processor delivers events one at a time *)

NoRequest == Request(<<>>, EmptyBody)

\* The emails recovery is asked for, and the threads of the pool that runs the
\* endpoint (recover_password is a plain def: each request runs in a worker thread)
Emails == {"a@x.io", "b@x.io"}
Threads == {"t1", "t2"}

\* A thread's frame: where it stands, and the locals email, now and attempts of
\* check_rate_limit, the list its comprehension built, and the value returned.
Caller(pc, email, now, attempts, built, result) ==
    [pc |-> pc, email |-> email, now |-> now, attempts |-> attempts,
     built |-> built, result |-> result]

IdleCaller == Caller("idle", NULL, 0, 0, <<>>, NULL)

\* The module has just been imported: password_recovery_attempts = defaultdict(list)
NoRecoveryYet ==
    /\ password_recovery_attempts = [e \in Emails |-> 0]
    /\ lists = <<>>
    /\ clock = 0
    /\ callers = [t \in Threads |-> IdleCaller]
    /\ nCalls = 0

Handlers == {"w1", "w2"}

IdleHandler == [pc |-> "idle"]

Init ==
    /\ secret \in {"", "whsec"}
    /\ users = InitUsers
    /\ plans = InitPlans
    /\ subs \in SeedSubs
    /\ subs0 = subs
    /\ payments = <<>>
    /\ api_key = ""
    /\ store_id = ""
    /\ outbound = <<>>
    /\ phase = "idle"
    /\ req = NoRequest
    /\ resp = NoResponse
    /\ redelivered = FALSE
    /\ nDeliveries = 0
    /\ nPaymentEvents = 0
    /\ hs = [h \in Handlers |-> IdleHandler]
    /\ NoRecoveryYet

CountPaymentEvent(r) ==
    nPaymentEvents' =
        nPaymentEvents +
        (IF reaches_dispatch(r) /\ r.body.event_name = "subscription_payment_success"
         THEN 1 ELSE 0)

\* A request arrives and is handled to its response.
Deliver(r) ==
    /\ phase = "idle"
    /\ nDeliveries < MaxDeliveries
    /\ lemonsqueezy_webhook(r)
    /\ CountPaymentEvent(r)
    /\ req' = r
    /\ phase' = "done"
    /\ redelivered' = FALSE
    /\ nDeliveries' = nDeliveries + 1
    /\ UNCHANGED <<password_recovery_attempts, lists, clock, callers, nCalls, secret, api_key, store_id, outbound, subs0, hs>>

\* The processor delivers at least once: the same request arrives again.
Redeliver ==
    /\ phase = "done"
    /\ ~redelivered
    /\ lemonsqueezy_webhook(req)
    /\ CountPaymentEvent(req)
    /\ redelivered' = TRUE
    /\ UNCHANGED <<password_recovery_attempts, lists, clock, callers, nCalls, secret, api_key, store_id, outbound, subs0, phase, req, nDeliveries, hs>>

\* The response is sent and the session of get_session is closed.
Finish ==
    /\ phase = "done"
    /\ phase' = "idle"
    /\ req' = NoRequest
    /\ resp' = NoResponse
    /\ redelivered' = FALSE
    /\ UNCHANGED <<password_recovery_attempts, lists, clock, callers, nCalls, secret, api_key, store_id, outbound, subs0, users, plans, subs, payments, nDeliveries, nPaymentEvents, hs>>

Next ==
    \/ \E r \in Requests : Deliver(r)
    \/ Redeliver
    \/ Finish

Spec == Init /\ [][Next]_vars

----------------------------------------------------------------------------
(* Step-wise: two workers, each request in its own session, interleaved at *)
(* the database round trips                                                *)

\* Deliveries explored by the step-wise specification.
MaxWorkerDeliveries == 2

NoRow == SubRow(NULL, NULL, NULL, NULL, NULL, NULL, NULL, NULL)

\* pc: idle, verify, parse, find_user, query, commit, done.
\* queries: database round trips made so far; loaded/snapshot: the
\* UserSubscription the session holds (0: none) as it was read.
Handler(pc, r, response, user, queries, loaded, snapshot) ==
    [ pc |-> pc, req |-> r, resp |-> response, user |-> user, queries |-> queries,
      loaded |-> loaded, snapshot |-> snapshot ]

\* Requests of the step-wise specification
WorkerBodies ==
    { b \in CreatedWho : b.first_subscription_item = "s1" /\ b.variant_id = "v1" }
    \cup { b \in CreatedFields : /\ b.first_subscription_item = "s2"
                                 /\ b.variant_id = "v2"
                                 /\ b.status = "on_trial"
                                 /\ b.created_at # NULL }
    \cup { b \in UpdatedFields : /\ b.first_subscription_item = "s1"
                                 /\ b.variant_id # "v9"
                                 /\ b.renews_at # "not-a-date"
                                 /\ (b.status = NULL) # (b.variant_id = NULL) }
    \cup { b \in EndedEvents : /\ b.event_name = "subscription_cancelled"
                               /\ b.id = "s1"
                               /\ b.subscription_id = NULL }
    \cup { b \in PaymentSuccessEvents : b.subscription_id = "s1" /\ b.order_id = "O2" }
    \cup { b \in OtherEvents : b.event_name # NULL }

WorkerRequests ==
    { Signed(b) : b \in WorkerBodies }
    \cup UNION { Forged(b) : b \in {c \in WorkerBodies :
                                       /\ c \in CreatedWho
                                       /\ c.user_id = "u1"} }

InitWorkers ==
    /\ secret = "whsec"
    /\ users = InitUsers
    /\ plans = InitPlans
    /\ subs \in SeedSubs
    /\ subs0 = subs
    /\ payments = <<>>
    /\ api_key = ""
    /\ store_id = ""
    /\ outbound = <<>>
    /\ phase = "idle"
    /\ req = NoRequest
    /\ resp = NoResponse
    /\ redelivered = FALSE
    /\ nDeliveries = 0
    /\ nPaymentEvents = 0
    /\ hs = [h \in Handlers |-> Handler("idle", NoRequest, NoResponse, NULL, 0, 0, NoRow)]
    /\ NoRecoveryYet

WorkerFrame == UNCHANGED <<password_recovery_attempts, lists, clock, callers, nCalls, secret, api_key, store_id, outbound, subs0, users, plans, phase, req, resp, redelivered>>

\* The handler of worker h answers after n more round trips and makes no further
\* step but the close.
Answer(h, n, response) ==
    hs' = [hs EXCEPT ![h].pc = "done", ![h].resp = response, ![h].queries = @ + n]

Receive(h, r) ==
    /\ hs[h].pc = "idle"
    /\ nDeliveries < MaxWorkerDeliveries
    /\ nDeliveries' = nDeliveries + 1
    /\ hs' = [hs EXCEPT ![h] = Handler("verify", r, NoResponse, NULL, 0, 0, NoRow)]
    /\ UNCHANGED <<subs, payments, nPaymentEvents>>
    /\ WorkerFrame

\* lines 203-214
Verify(h) ==
    /\ hs[h].pc = "verify"
    /\ IF verify_signature(hs[h].req)
       THEN hs' = [hs EXCEPT ![h].pc = "parse"]
       ELSE Answer(h, 0, Unauthorized)
    /\ UNCHANGED <<subs, payments, nDeliveries, nPaymentEvents>>
    /\ WorkerFrame

\* lines 215-224
Parse(h) ==
    /\ hs[h].pc = "parse"
    /\ IF hs[h].req.body.wellformed /\ hs[h].req.body.custom_data
       THEN hs' = [hs EXCEPT ![h].pc = "find_user"]
       ELSE Answer(h, 0, ServerError)
    /\ UNCHANGED <<subs, payments, nDeliveries, nPaymentEvents>>
    /\ WorkerFrame

\* line 225
FindUser(h) ==
    /\ hs[h].pc = "find_user"
    /\ LET b == hs[h].req.body
       IN  hs' = [hs EXCEPT
                    ![h].pc = "query",
                    ![h].user = find_user(b.user_id, b.customer_id, b.user_email),
                    ![h].queries =
                        @ + Len(find_user_lookups(b.user_id, b.customer_id, b.user_email))]
    /\ UNCHANGED <<subs, payments, nDeliveries, nPaymentEvents>>
    /\ WorkerFrame

\* After n more round trips the session holds row i (0: no row matched) and goes
\* on to its commit.
Load(h, n, i) ==
    hs' = [hs EXCEPT ![h].pc = "commit",
                     ![h].queries = @ + n,
                     ![h].loaded = i,
                     ![h].snapshot = IF i = 0 THEN NoRow ELSE subs[i]]

LoadAny(h, n, found) ==
    IF found = {} THEN Load(h, n, 0) ELSE \E i \in found : Load(h, n, i)

\* 1 when the SELECT guarded by "if subscription_id" is made
Asked(subscription_id) == IF Truthy(subscription_id) THEN 1 ELSE 0

\* The reads of the branch the event is dispatched to, up to its SELECT on
\* user_subscriptions.
Query(h) ==
    /\ hs[h].pc = "query"
    /\ LET data == hs[h].req.body
           user == hs[h].user
       IN  CASE data.event_name = "order_created" -> Answer(h, 0, Ok)
             [] data.event_name = "subscription_created" ->
                    IF data.first_subscription_item = ABSENT
                    THEN Answer(h, 0, ServerError)
                    ELSE IF plan_by_variant(data.variant_id) = NULL
                    THEN Answer(h, 1, SoftError("Plan not found"))
                    ELSE IF user = NULL
                    THEN Answer(h, 1, SoftError("User not found"))
                    ELSE LoadAny(h, 2, subs_of_user(subs, user))
             [] data.event_name = "subscription_payment_success" ->
                    LoadAny(h, Asked(data.subscription_id),
                            subs_by_lemon_id(subs, data.subscription_id))
             [] data.event_name = "subscription_updated" ->
                    IF data.first_subscription_item = ABSENT
                    THEN Answer(h, 0, ServerError)
                    ELSE IF subs_by_lemon_id(subs, data.first_subscription_item) = {}
                    THEN Answer(h, Asked(data.first_subscription_item), Ok)
                    ELSE LoadAny(h, 1, subs_by_lemon_id(subs, data.first_subscription_item))
             [] data.event_name \in EndedTypes ->
                    IF subs_by_lemon_id(subs, ended_subscription_id(data)) = {}
                    THEN Answer(h, Asked(ended_subscription_id(data)), Ok)
                    ELSE LoadAny(h, 1, subs_by_lemon_id(subs, ended_subscription_id(data)))
             [] OTHER -> Answer(h, 0, Ignored)
    /\ UNCHANGED <<subs, payments, nDeliveries, nPaymentEvents>>
    /\ WorkerFrame

\* An UPDATE that writes every column of the row the session holds.
flush_whole_row(current, snapshot, assigned) == assigned

\* The UPDATE the unit of work emits for a loaded row: it sets the columns whose
\* assigned value differs from the value that was loaded, on the row as it is now.
flush(current, snapshot, assigned) ==
    [f \in DOMAIN current |-> IF assigned[f] # snapshot[f] THEN assigned[f] ELSE current[f]]

\* session.commit() of worker h on user_subscriptions
CommitSub(h, table, row) ==
    IF SubRowAccepted(row)
    THEN /\ subs' = table
         /\ Answer(h, 1, Ok)
    ELSE /\ subs' = subs
         /\ Answer(h, 1, ServerError)

\* The row worker h inserts or the row its UPDATE leaves, by event type
CommitRow(h) ==
    LET data == hs[h].req.body
        i == hs[h].loaded
        snapshot == hs[h].snapshot
        plan == plan_by_variant(data.variant_id)
    IN  CASE data.event_name = "subscription_created" /\ i = 0 ->
                 created_row(ToString(Len(subs) + 1), hs[h].user, plan, data)
          [] data.event_name = "subscription_created" /\ i # 0 ->
                 flush(subs[i], snapshot, created_update(snapshot, plan, data))
          [] data.event_name = "subscription_updated" ->
                 flush(subs[i], snapshot, updated_update(snapshot, data))
          [] data.event_name \in EndedTypes ->
                 flush(subs[i], snapshot,
                       [snapshot EXCEPT !.status = ended_status(data.event_name)])

\* The write and the commit of the branch, in one round trip
Commit(h) ==
    /\ hs[h].pc = "commit"
    /\ LET data == hs[h].req.body
           i == hs[h].loaded
           snapshot == hs[h].snapshot
       IN  IF data.event_name = "subscription_payment_success"
           THEN LET row == payment_row(IF hs[h].user = NULL THEN snapshot.user_id
                                                             ELSE hs[h].user,
                                       snapshot.id, data)
                IN  /\ nPaymentEvents' = nPaymentEvents + 1
                    /\ subs' = subs
                    /\ IF PaymentRowAccepted(row)
                       THEN payments' = Append(payments, row) /\ Answer(h, 1, Ok)
                       ELSE payments' = payments /\ Answer(h, 1, ServerError)
           ELSE /\ UNCHANGED <<payments, nPaymentEvents>>
                /\ CommitSub(h, IF i = 0 THEN Append(subs, CommitRow(h))
                                         ELSE [subs EXCEPT ![i] = CommitRow(h)],
                             CommitRow(h))
    /\ UNCHANGED nDeliveries
    /\ WorkerFrame

\* The response is sent and the session of get_session is closed.
Close(h) ==
    /\ hs[h].pc = "done"
    /\ hs' = [hs EXCEPT ![h] = Handler("idle", NoRequest, NoResponse, NULL, 0, 0, NoRow)]
    /\ UNCHANGED <<subs, payments, nDeliveries, nPaymentEvents>>
    /\ WorkerFrame

NextWorkers ==
    \E h \in Handlers :
        \/ \E r \in WorkerRequests : Receive(h, r)
        \/ Verify(h)
        \/ Parse(h)
        \/ FindUser(h)
        \/ Query(h)
        \/ Commit(h)
        \/ Close(h)

SpecWorkers == InitWorkers /\ [][NextWorkers]_vars

----------------------------------------------------------------------------
(* The user resolver on its own, over every combination of hints *)

\* user_id: absent, empty, u1, u2, unknown; customer_id and user_email: absent,
\* that of u1, that of u2, unknown.
ResolverHints ==
    { [custom_data |-> TRUE, user_id |-> i, customer_id |-> c, user_email |-> e] :
        i \in {NULL, "", "u1", "u2", "u9"},
        c \in {NULL, "c1", "c2", "c9"},
        e \in {NULL, "a@x.io", "b@x.io", "z@x.io"} }

\* user = find_user(user_id, customer_id, user_email) in the handler of worker h,
\* with the SELECTs it made
ResolveUser(h, hint) ==
    /\ hs[h].pc = "idle"
    /\ hs' = [hs EXCEPT ![h] =
                [ pc |-> "resolved",
                  req |-> Signed(Event("order_created", hint)),
                  user |-> find_user(hint.user_id, hint.customer_id, hint.user_email),
                  lookups |-> find_user_lookups(hint.user_id, hint.customer_id,
                                                hint.user_email) ]]
    /\ UNCHANGED <<password_recovery_attempts, lists, clock, callers, nCalls, secret, api_key, store_id, outbound, subs0, users, plans, subs, payments, phase, req, resp,
                   redelivered, nDeliveries, nPaymentEvents>>

\* order_created returns right after the resolver
Resolved(h) ==
    /\ hs[h].pc = "resolved"
    /\ hs' = [hs EXCEPT ![h] = IdleHandler]
    /\ UNCHANGED <<password_recovery_attempts, lists, clock, callers, nCalls, secret, api_key, store_id, outbound, subs0, users, plans, subs, payments, phase, req, resp,
                   redelivered, nDeliveries, nPaymentEvents>>

NextResolver ==
    \E h \in Handlers :
        \/ \E hint \in ResolverHints : ResolveUser(h, hint)
        \/ Resolved(h)

SpecResolver == Init /\ [][NextResolver]_vars

----------------------------------------------------------------------------
(* Checkout-session creation: POST /checkout/ *)

\* Checkout requests explored.
MaxCheckouts == 2

\* CheckoutRequest.plan_code: two sellable plans, one without a variant id, and a
\* code no plan has
PlanCodes == {"pro", "team", "free", "nope"}

\* What httpx.post(...) does: it raises (error), or returns a response with a
\* status code and a body that is JSON or not, whose data.attributes.url is
\* absent, null or a string.
HttpResponse(error, status_code, json, url) ==
    [error |-> error, status_code |-> status_code, json |-> json, url |-> url]

CheckoutUrl == "https://ls/checkout/1"

HttpResponses ==
    { HttpResponse(TRUE, 0, FALSE, ABSENT),
      HttpResponse(FALSE, 500, FALSE, ABSENT),
      HttpResponse(FALSE, 200, FALSE, ABSENT),
      HttpResponse(FALSE, 422, TRUE, ABSENT),
      HttpResponse(FALSE, 422, TRUE, CheckoutUrl),
      HttpResponse(FALSE, 302, TRUE, CheckoutUrl),
      HttpResponse(FALSE, 201, TRUE, ABSENT),
      HttpResponse(FALSE, 201, TRUE, NULL),
      HttpResponse(FALSE, 201, TRUE, CheckoutUrl),
      HttpResponse(FALSE, 200, TRUE, CheckoutUrl) }

\* raise HTTPException(status_code=502, detail=f"LemonSqueezy error: {e}")
BadGateway(e) == Response(502, e)

\* The try block with raise_for_status() left out.
checkout_response_unchecked_status(r) ==
    IF r.error THEN BadGateway("ConnectError")
    ELSE IF ~r.json THEN BadGateway("JSONDecodeError")
    ELSE IF r.url = ABSENT THEN BadGateway("KeyError")
    ELSE IF r.url = NULL THEN BadGateway("ValidationError")
    ELSE Response(200, r.url)

\* The try block: response.json() for the log line, raise_for_status(), the url
\* taken out of the body, CheckoutResponse(checkout_url=url); any exception is a 502.
checkout_response(r) ==
    IF r.error THEN BadGateway("ConnectError")
    ELSE IF ~r.json THEN BadGateway("JSONDecodeError")
    ELSE IF r.status_code \notin 200..299 THEN BadGateway("HTTPStatusError")
    ELSE IF r.url = ABSENT THEN BadGateway("KeyError")
    ELSE IF r.url = NULL THEN BadGateway("ValidationError")
    ELSE Response(200, r.url)

\* select(SubscriptionPlan).where(code == plan_code).first(); code is unique
plans_by_code(plan_code) == {p \in plans : p.code = plan_code}

create_checkout_session(plan_code, current_user, r) ==
    LET found == plans_by_code(plan_code)
        plan == CHOOSE p \in found : TRUE
    IN  /\ UNCHANGED <<users, plans, subs, payments>>
        /\ IF found = {} \/ ~Truthy(plan.lemon_variant_id)
           THEN /\ resp' = Response(404, "Plan not found or not configured for LemonSqueezy")
                /\ outbound' = outbound
           ELSE IF ~Truthy(api_key) \/ ~Truthy(store_id)
           THEN /\ resp' = Response(500, "LemonSqueezy API key or store ID not configured")
                /\ outbound' = outbound
           ELSE /\ outbound' = Append(outbound,
                                      [ variant |-> plan.lemon_variant_id,
                                        store |-> store_id,
                                        user_id |-> current_user,
                                        response |-> r ])
                /\ resp' = checkout_response(r)

InitCheckout ==
    /\ secret = "whsec"
    /\ users = InitUsers
    /\ plans = InitPlans
    /\ subs \in SeedSubs
    /\ subs0 = subs
    /\ payments = <<>>
    /\ api_key \in {"", "key"}
    /\ store_id \in {"", "4711"}
    /\ outbound = <<>>
    /\ phase = "idle"
    /\ req = [plan_code |-> NULL, current_user |-> NULL]
    /\ resp = NoResponse
    /\ redelivered = FALSE
    /\ nDeliveries = 0
    /\ nPaymentEvents = 0
    /\ hs = [h \in Handlers |-> IdleHandler]
    /\ NoRecoveryYet

\* A signed-in user asks for a checkout of a plan and gets the answer.
Checkout(plan_code, current_user, r) ==
    /\ phase = "idle"
    /\ nDeliveries < MaxCheckouts
    /\ create_checkout_session(plan_code, current_user, r)
    /\ req' = [plan_code |-> plan_code, current_user |-> current_user]
    /\ phase' = "done"
    /\ nDeliveries' = nDeliveries + 1
    /\ UNCHANGED <<password_recovery_attempts, lists, clock, callers, nCalls, secret, api_key, store_id, subs0, redelivered, nPaymentEvents, hs>>

CheckoutAnswered ==
    /\ phase = "done"
    /\ phase' = "idle"
    /\ UNCHANGED <<password_recovery_attempts, lists, clock, callers, nCalls, secret, api_key, store_id, outbound, subs0, users, plans, subs,
                   payments, req, resp, redelivered, nDeliveries, nPaymentEvents, hs>>

NextCheckout ==
    \/ \E plan_code \in PlanCodes, current_user \in {"u1", "u2"}, r \in HttpResponses :
           Checkout(plan_code, current_user, r)
    \/ CheckoutAnswered

SpecCheckout == InitCheckout /\ [][NextCheckout]_vars

----------------------------------------------------------------------------
(* The rate limiter of password recovery, one bytecode-level step at a time *)

MAX_ATTEMPTS_PER_HOUR == 3
RATE_LIMIT_WINDOW == 3600

\* Calls of recover_password explored, and the times the clock advances
MaxCalls == 4
MaxTicks == 2

\* The clock advances by half a window at a time.
TickSeconds == RATE_LIMIT_WINDOW \div 2

\* [attempt_time for attempt_time in attempts if now - attempt_time < RATE_LIMIT_WINDOW]
within_window(attempts, now) ==
    SelectSeq(attempts, LAMBDA attempt_time : now - attempt_time < RATE_LIMIT_WINDOW)

\* line 80
limit_reached(attempts) == Len(attempts) >= MAX_ATTEMPTS_PER_HOUR

\* The process has started and no request has arrived.
InitLimiter ==
    /\ secret = "whsec"
    /\ users = InitUsers
    /\ plans = InitPlans
    /\ subs = <<>>
    /\ subs0 = subs
    /\ payments = <<>>
    /\ api_key = ""
    /\ store_id = ""
    /\ outbound = <<>>
    /\ phase = "idle"
    /\ req = NoRequest
    /\ resp = NoResponse
    /\ redelivered = FALSE
    /\ nDeliveries = 0
    /\ nPaymentEvents = 0
    /\ hs = [h \in Handlers |-> IdleHandler]
    /\ NoRecoveryYet

LimiterFrame ==
    UNCHANGED <<secret, subs0, users, plans, subs, payments, phase, req, resp, redelivered,
                nDeliveries, nPaymentEvents, hs, api_key, store_id, outbound>>

\* A request for email e reaches thread t: line 136 calls check_rate_limit, whose
\* line 69 reads the clock.
Call(t, e) ==
    /\ callers[t].pc = "idle"
    /\ nCalls < MaxCalls
    /\ nCalls' = nCalls + 1
    /\ callers' = [callers EXCEPT ![t] = Caller("l70", e, clock, 0, <<>>, NULL)]
    /\ UNCHANGED <<password_recovery_attempts, lists, clock>>
    /\ LimiterFrame

\* line 70: attempts = password_recovery_attempts[email]; the defaultdict makes
\* and stores an empty list for a key it does not have.
GetAttempts(t) ==
    /\ callers[t].pc = "l70"
    /\ LET e == callers[t].email
       IN  IF password_recovery_attempts[e] = 0
           THEN /\ lists' = Append(lists, <<>>)
                /\ password_recovery_attempts' =
                       [password_recovery_attempts EXCEPT ![e] = Len(lists) + 1]
                /\ callers' = [callers EXCEPT ![t].pc = "l73",
                                              ![t].attempts = Len(lists) + 1]
           ELSE /\ UNCHANGED <<lists, password_recovery_attempts>>
                /\ callers' = [callers EXCEPT ![t].pc = "l73",
                                              ![t].attempts = password_recovery_attempts[e]]
    /\ UNCHANGED <<clock, nCalls>>
    /\ LimiterFrame

\* lines 74-77: the comprehension reads the list object the local names, as that
\* object is now.
BuildList(t) ==
    /\ callers[t].pc = "l73"
    /\ callers' = [callers EXCEPT
                      ![t].pc = "l73s",
                      ![t].built = within_window(lists[callers[t].attempts], callers[t].now)]
    /\ UNCHANGED <<password_recovery_attempts, lists, clock, nCalls>>
    /\ LimiterFrame

\* line 73: the new list replaces the one the dict held.
StoreList(t) ==
    /\ callers[t].pc = "l73s"
    /\ lists' = Append(lists, callers[t].built)
    /\ password_recovery_attempts' =
           [password_recovery_attempts EXCEPT ![callers[t].email] = Len(lists) + 1]
    /\ callers' = [callers EXCEPT ![t].pc = "l80"]
    /\ UNCHANGED <<clock, nCalls>>
    /\ LimiterFrame

\* lines 80-81: the length of the list the dict holds now
CheckLimit(t) ==
    /\ callers[t].pc = "l80"
    /\ IF limit_reached(lists[password_recovery_attempts[callers[t].email]])
       THEN callers' = [callers EXCEPT ![t].pc = "l136", ![t].result = FALSE]
       ELSE callers' = [callers EXCEPT ![t].pc = "l84"]
    /\ UNCHANGED <<password_recovery_attempts, lists, clock, nCalls>>
    /\ LimiterFrame

\* lines 84-85: append to the list the dict holds now
AppendAttempt(t) ==
    /\ callers[t].pc = "l84"
    /\ lists' = [lists EXCEPT ![password_recovery_attempts[callers[t].email]] =
                                  Append(@, callers[t].now)]
    /\ callers' = [callers EXCEPT ![t].pc = "l136", ![t].result = TRUE]
    /\ UNCHANGED <<password_recovery_attempts, clock, nCalls>>
    /\ LimiterFrame

\* lines 136-140 and on: 429 when check_rate_limit returned False, else the
\* recovery goes on; either way the thread is free again.
recover_password(t) ==
    /\ callers[t].pc = "l136"
    /\ callers' = [callers EXCEPT ![t] = IdleCaller]
    /\ UNCHANGED <<password_recovery_attempts, lists, clock, nCalls>>
    /\ LimiterFrame

Tick ==
    /\ clock < MaxTicks * TickSeconds
    /\ clock' = clock + TickSeconds
    /\ UNCHANGED <<password_recovery_attempts, lists, callers, nCalls>>
    /\ LimiterFrame

NextLimiter ==
    \/ \E t \in Threads :
           \/ \E e \in Emails : Call(t, e)
           \/ GetAttempts(t)
           \/ BuildList(t)
           \/ StoreList(t)
           \/ CheckLimit(t)
           \/ AppendAttempt(t)
           \/ recover_password(t)
    \/ Tick

SpecLimiter == InitLimiter /\ [][NextLimiter]_vars

----------------------------------------------------------------------------
(* Properties *)

\* The request carries the hex HMAC-SHA256 of its body under the configured secret.
Authentic(r) ==
    /\ secret # ""
    /\ r.signature = hexdigest(secret, r.body)

\* A step of Spec in which the handler ran (on a new delivery or a redelivery);
\* req' is the request it handled.
Handled == phase' = "done"

\* The rows of a table that belong to a user / that carry an external id
RowsOwnedBy(table, user_id) == {i \in DOMAIN table : table[i].user_id = user_id}
RowsWithLemonId(table, id) ==
    {i \in DOMAIN table : id # NULL /\ table[i].lemon_subscription_id = id}

\* C1: a request whose signature header is absent, or is not the HMAC of the body
\* under the secret, or that arrives while no secret is configured, is answered
\* 401 and changes no User, Plan, UserSubscription or Payment, whatever its event
\* type and payload.
C1_ForgedIsRejected ==
    [][ (Handled /\ ~Authentic(req'))
            => (resp'.status_code = 401 /\ store' = store) ]_vars

\* A subscription_cancelled for an existing subscription, signed before its body
\* was altered, was answered 401.
C1_Witness ==
    /\ phase = "done"
    /\ secret = "whsec"
    /\ req.signature = hexdigest("whsec", BodyBeforeTampering(req.body))
    /\ req.body.event_name = "subscription_cancelled"
    /\ RowsWithLemonId(subs, req.body.id) # {}
    /\ resp.status_code = 401

\* C2: a handler that has got as far as parsing the payload, resolving the user,
\* querying the store or answering anything but 401 holds a request whose
\* signature check passed.
C2_VerifiedBeforeAnythingElse ==
    \A h \in Handlers :
        ( \/ hs[h].pc \in {"parse", "find_user", "query", "commit"}
          \/ hs[h].queries > 0
          \/ (hs[h].pc = "done" /\ hs[h].resp.status_code # 401) )
        => Authentic(hs[h].req)

\* One worker is about to commit after its queries while the other has turned a
\* forged request away without a single query.
C2_Witness ==
    \E h, g \in Handlers :
        /\ hs[h].pc = "commit"
        /\ hs[h].queries > 0
        /\ hs[g].pc = "done"
        /\ hs[g].resp.status_code = 401
        /\ hs[g].queries = 0
        /\ hs[g].req.signature # <<>>

\* C3: processed one at a time, events never leave a user with more than one
\* UserSubscription row.
C3_OneRowPerUser ==
    \A u \in users : Cardinality(RowsOwnedBy(subs, u.id)) <= 1

\* Both users have their row, the second made by a subscription_created that was
\* then delivered again.
C3_Witness ==
    /\ phase = "done"
    /\ redelivered
    /\ req.body.event_name = "subscription_created"
    /\ resp = Ok
    /\ \A u \in users : Cardinality(RowsOwnedBy(subs, u.id)) = 1

\* C4: when both workers have handled a subscription_created for the same user,
\* who had no UserSubscription beforehand, and both have committed, that user has
\* exactly one UserSubscription row.
C4_ConcurrentCreatesMakeOneRow ==
    \A u \in users :
        ( /\ RowsOwnedBy(subs0, u.id) = {}
          /\ \A h \in Handlers :
                 /\ hs[h].pc = "done"
                 /\ hs[h].resp = Ok
                 /\ hs[h].req.body.event_name = "subscription_created"
                 /\ hs[h].user = u.id )
        => Cardinality(RowsOwnedBy(subs, u.id)) = 1

\* The handler gets as far as the dispatch on the event type.
Dispatched(r) == Authentic(r) /\ r.body.wellformed /\ r.body.custom_data

\* C5: a subscription_created or subscription_updated event delivered a second
\* time, right after its first delivery, leaves the store as the first left it.
C5_RedeliveryChangesNothing ==
    [][ ( /\ ~redelivered
          /\ redelivered'
          /\ req.body.event_name \in {"subscription_created", "subscription_updated"} )
        => store' = store ]_vars

\* The user a dispatched event resolves to, and the plan of its variant
EventUser(b) == find_user(b.user_id, b.customer_id, b.user_email)
EventPlan(b) == plan_by_variant(b.variant_id)

\* A subscription_created event, for a known plan, of a user who has a row
CreatedForSubscriber(r) ==
    /\ Dispatched(r)
    /\ r.body.event_name = "subscription_created"
    /\ EventPlan(r.body) # NULL
    /\ EventUser(r.body) # NULL
    /\ RowsOwnedBy(subs, EventUser(r.body)) # {}

\* The row with the six fields taken from the event, absent ones as null
Overwritten(row, b) ==
    [row EXCEPT
        !.subscription_plan_id = EventPlan(b),
        !.lemon_subscription_id =
            IF b.first_subscription_item = ABSENT THEN NULL ELSE b.first_subscription_item,
        !.status = b.status,
        !.start_date = parse_dt(b.created_at),
        !.current_period_end = parse_dt(b.renews_at),
        !.trial_end = parse_dt(b.trial_ends_at)]

OverwritesTheRow(b) ==
    /\ Len(subs') = Len(subs)
    /\ \E i \in RowsOwnedBy(subs, EventUser(b)) :
           subs' = [subs EXCEPT ![i] = Overwritten(subs[i], b)]

\* C6: a subscription_created event for a user who has a row adds no row and
\* overwrites plan, external id, status, start date, period end and trial end of
\* that row with the event's values, an absent field becoming null.
C6_CreatedOverwritesEveryField ==
    [][ (Handled /\ CreatedForSubscriber(req')) => OverwritesTheRow(req'.body) ]_vars

\* What the handler does for such an event (the extent to which C6 holds): it
\* never adds a row; when the event carries first_subscription_item and a status
\* the six fields are overwritten, an absent or unparsable date becoming null, and
\* the answer is {"ok": true}; when it lacks either, the answer is 500 and the row
\* stays as it was.
CreatedOverwritesOrFails ==
    [][ (Handled /\ CreatedForSubscriber(req'))
        => /\ Len(subs') = Len(subs)
           /\ payments' = payments
           /\ IF req'.body.first_subscription_item # ABSENT /\ req'.body.status # NULL
              THEN OverwritesTheRow(req'.body) /\ resp' = Ok
              ELSE subs' = subs /\ resp'.status_code = 500 ]_vars

\* u1, subscribed to "pro" with dates, was moved to another plan by an event that
\* carried no dates: one row, the new plan, the dates now null.
CreatedOverwrote ==
    /\ phase = "done"
    /\ req.body.event_name = "subscription_created"
    /\ resp = Ok
    /\ Len(subs0) = 1
    /\ Len(subs) = 1
    /\ subs0[1].subscription_plan_id = "p1"
    /\ subs[1].subscription_plan_id = "p2"
    /\ subs0[1].start_date # NULL
    /\ subs[1].start_date = NULL
    /\ subs[1].current_period_end = NULL

\* C7: the payments table holds one row, with status "succeeded", for every
\* subscription_payment_success delivery that was dispatched.
C7_OnePaymentPerDelivery ==
    /\ Len(payments) = nPaymentEvents
    /\ \A i \in DOMAIN payments : payments[i].status = "succeeded"

\* C8: a subscription_payment_success event that resolves to no UserSubscription
\* and to no User is answered {"ok": true} and stored as a Payment with null user
\* and subscription references and the event's order id.
C8_OrphanPaymentIsStored ==
    ( /\ phase = "done"
      /\ Dispatched(req)
      /\ req.body.event_name = "subscription_payment_success"
      /\ RowsWithLemonId(subs, req.body.subscription_id) = {}
      /\ EventUser(req.body) = NULL )
    => /\ resp = Ok
       /\ payments # <<>>
       /\ payments[Len(payments)].user_id = NULL
       /\ payments[Len(payments)].user_subscription_id = NULL
       /\ payments[Len(payments)].lemon_order_id = req.body.order_id

\* The external subscription ids an event carries, in either form
EventSubscriptionIds(b) ==
    {b.subscription_id, b.first_subscription_item, b.id} \ {NULL, ABSENT}

\* C9: a subscription_updated, _cancelled, _expired or _payment_failed event whose
\* external subscription id matches no row is answered {"ok": true} and changes
\* nothing.
C9_UnknownSubscriptionIsSkipped ==
    [][ ( /\ Handled
          /\ Dispatched(req')
          /\ req'.body.event_name \in EndedTypes \cup {"subscription_updated"}
          /\ EventSubscriptionIds(req'.body) # {}
          /\ \A id \in EventSubscriptionIds(req'.body) : RowsWithLemonId(subs, id) = {} )
        => (resp' = Ok /\ store' = store) ]_vars

\* C10: a subscription_updated event never replaces a known current_period_end by
\* null; one without renews_at leaves every current_period_end as it was and
\* still sets the status it carries on a row it matched.
C10_UpdatedKeepsPeriodEnd ==
    [][ (Handled /\ Dispatched(req') /\ req'.body.event_name = "subscription_updated")
        => /\ Len(subs') = Len(subs)
           /\ \A i \in DOMAIN subs :
                  subs[i].current_period_end # NULL => subs'[i].current_period_end # NULL
           /\ req'.body.renews_at = NULL
                  => /\ \A i \in DOMAIN subs :
                            subs'[i].current_period_end = subs[i].current_period_end
                     /\ ( /\ req'.body.status # NULL
                          /\ RowsWithLemonId(subs, req'.body.first_subscription_item) # {} )
                        => \E i \in RowsWithLemonId(subs, req'.body.first_subscription_item) :
                               subs'[i].status = req'.body.status ]_vars

\* An update without renews_at set u1's status to "paused" and left the period end
\* of 2024-02-01 in place.
C10_Witness ==
    /\ phase = "done"
    /\ req.body.event_name = "subscription_updated"
    /\ req.body.renews_at = NULL
    /\ req.body.status = "paused"
    /\ resp = Ok
    /\ Len(subs0) = 1
    /\ subs0[1].status = "active"
    /\ subs[1].status = "paused"
    /\ subs[1].current_period_end = "2024-02-01 00:00:00"

\* The variant id is one a Plan row carries
KnownVariant(v) == v # NULL /\ \E p \in plans : p.lemon_variant_id = v

\* C11: a subscription_updated event that matches a row and whose variant_id is
\* absent or is the variant of no Plan leaves every row's plan reference as it
\* was, is answered {"ok": true}, and sets the status it carries on a matched row.
C11_UnknownVariantKeepsPlan ==
    [][ ( /\ Handled
          /\ Dispatched(req')
          /\ req'.body.event_name = "subscription_updated"
          /\ RowsWithLemonId(subs, req'.body.first_subscription_item) # {}
          /\ ~KnownVariant(req'.body.variant_id) )
        => /\ Len(subs') = Len(subs)
           /\ resp' = Ok
           /\ \A i \in DOMAIN subs :
                  subs'[i].subscription_plan_id = subs[i].subscription_plan_id
           /\ req'.body.status # NULL
                  => \E i \in RowsWithLemonId(subs, req'.body.first_subscription_item) :
                         subs'[i].status = req'.body.status ]_vars

\* An update naming the unknown variant v9 paused u1's subscription and left it on
\* plan p1.
C11_Witness ==
    /\ phase = "done"
    /\ req.body.event_name = "subscription_updated"
    /\ req.body.variant_id = "v9"
    /\ req.body.status = "paused"
    /\ resp = Ok
    /\ Len(subs0) = 1
    /\ subs0[1].status = "active"
    /\ subs[1].status = "paused"
    /\ subs[1].subscription_plan_id = "p1"

\* C12: a subscription_created event whose variant id is the variant of no Plan,
\* or whose hints resolve to no User, is answered 200 with an {"error": ...} body
\* and changes nothing.
C12_UnknownPlanOrUserIsSoftError ==
    [][ ( /\ Handled
          /\ Dispatched(req')
          /\ req'.body.event_name = "subscription_created"
          /\ req'.body.variant_id # NULL
          /\ (~KnownVariant(req'.body.variant_id) \/ EventUser(req'.body) = NULL) )
        => /\ resp' \in {SoftError("Plan not found"), SoftError("User not found")}
           /\ store' = store ]_vars

\* C13: a request with a valid signature and a JSON envelope that names an event
\* and carries meta.custom_data is answered 200, whatever the event type and
\* whether or not its plan, subscription and user are known.
C13_SignedEventsAreAcknowledged ==
    ( /\ phase = "done"
      /\ Dispatched(req)
      /\ req.body.event_name # NULL )
    => resp.status_code = 200

\* C14: a signed JSON event whose envelope carries no meta.custom_data is
\* dispatched like any other: an order_created is answered {"ok": true}, an
\* unrecognised type {"ignored": true}, and no such event is answered 500.
C14_CustomDataIsOptional ==
    ( /\ phase = "done"
      /\ Authentic(req)
      /\ req.body.wellformed
      /\ ~req.body.custom_data )
    => /\ resp.status_code = 200
       /\ req.body.event_name = "order_created" => resp = Ok
       /\ req.body.event_name \in {"subscription_resumed", NULL} => resp = Ignored

\* A hint is present when it is neither null nor empty
Present(x) == x \notin {NULL, ""}
UsersById(b) == {u \in users : Present(b.user_id) /\ u.id = b.user_id}
UsersByCustomer(b) ==
    {u \in users : Present(b.customer_id) /\ u.lemon_customer_id = b.customer_id}
UsersByEmail(b) == {u \in users : Present(b.user_email) /\ u.email = b.user_email}

\* The user the priority order id > customer id > e-mail gives
IsResolutionOf(user, b) ==
    IF UsersById(b) # {} THEN \E u \in UsersById(b) : user = u.id
    ELSE IF UsersByCustomer(b) # {} THEN \E u \in UsersByCustomer(b) : user = u.id
    ELSE IF UsersByEmail(b) # {} THEN \E u \in UsersByEmail(b) : user = u.id
    ELSE user = NULL

\* The lookups that order allows
IsAllowedLookup(b, kind) ==
    CASE kind = "id" -> Present(b.user_id)
      [] kind = "lemon_customer_id" -> Present(b.customer_id) /\ UsersById(b) = {}
      [] kind = "email" ->
             Present(b.user_email) /\ UsersById(b) = {} /\ UsersByCustomer(b) = {}

\* C15: the resolver returns the user found by id, else by customer id, else by
\* e-mail, else none, and makes exactly the lookups whose input is present and
\* whose higher-priority lookups found nobody, in that order.
C15_ResolverFollowsPriority ==
    \A h \in Handlers :
        hs[h].pc = "resolved"
        => LET b == hs[h].req.body
           IN  /\ IsResolutionOf(hs[h].user, b)
               /\ hs[h].lookups =
                      SelectSeq(<<"id", "lemon_customer_id", "email">>,
                                LAMBDA kind : IsAllowedLookup(b, kind))

\* Hints in conflict (the id of u1, the customer id and e-mail of u2) resolved to
\* u1 by the id lookup alone; an unknown id and customer id with the e-mail of u2
\* took all three lookups.
C15_Witness ==
    /\ hs["w1"].pc = "resolved"
    /\ hs["w1"].req.body.user_id = "u1"
    /\ hs["w1"].req.body.customer_id = "c2"
    /\ hs["w1"].req.body.user_email = "b@x.io"
    /\ hs["w1"].user = "u1"
    /\ hs["w1"].lookups = <<"id">>
    /\ hs["w2"].pc = "resolved"
    /\ hs["w2"].req.body.user_id = "u9"
    /\ hs["w2"].req.body.customer_id = "c9"
    /\ hs["w2"].user = "u2"
    /\ hs["w2"].lookups = <<"id", "lemon_customer_id", "email">>

\* C16: handling a request, of whatever event type, leaves the set of User rows
\* and every field of each as it was.
C16_UsersAreNeverWritten == [][ Handled => users' = users ]_vars

\* Two deliveries, the last a subscription_created whose hints resolve to nobody,
\* and the users are still the two there were.
C16_Witness ==
    /\ phase = "done"
    /\ nDeliveries = MaxDeliveries
    /\ Dispatched(req)
    /\ req.body.event_name = "subscription_created"
    /\ req.body.user_id = "u9"
    /\ resp = SoftError("User not found")
    /\ users = InitUsers

\* C17: handling a request, of whatever event type, leaves the Plan rows as they
\* were; an unknown variant id adds no plan.
C17_PlansAreNeverWritten == [][ Handled => plans' = plans ]_vars

\* Two deliveries, the last a subscription_created for the unknown variant v9,
\* and the plans are still the three there were.
C17_Witness ==
    /\ phase = "done"
    /\ nDeliveries = MaxDeliveries
    /\ Dispatched(req)
    /\ req.body.event_name = "subscription_created"
    /\ req.body.variant_id = "v9"
    /\ resp = SoftError("Plan not found")
    /\ plans = InitPlans

\* A plan with this code exists and has an external variant id
Sellable(plan_code) ==
    \E p \in plans : p.code = plan_code /\ Present(p.lemon_variant_id)

\* The outbound call failed: no response, a non-2xx status, a body that is not
\* JSON or that holds no url string
CallFailed(r) ==
    \/ r.error
    \/ r.status_code < 200
    \/ r.status_code > 299
    \/ ~r.json
    \/ r.url \in {ABSENT, NULL}

CheckoutStep == phase = "idle" /\ phase' = "done"

Configured == api_key # "" /\ store_id # ""

\* One more outbound call was made, and the answer follows from what came back:
\* 502 when it failed, the hosted checkout URL otherwise.
CalledOnce ==
    /\ Len(outbound') = Len(outbound) + 1
    /\ SubSeq(outbound', 1, Len(outbound)) = outbound
    /\ IF CallFailed(outbound'[Len(outbound')].response)
       THEN resp'.status_code = 502
       ELSE resp' = Response(200, outbound'[Len(outbound')].response.url)

\* C18: checkout-session creation changes no entity; for a plan code that no plan
\* has, or whose plan has no variant id, it answers 404 without an outbound call;
\* otherwise it makes the call and answers 502 when the call fails and the hosted
\* checkout URL when it does not.
C18_CheckoutOutcomes ==
    [][ CheckoutStep
        => /\ store' = store
           /\ IF ~Sellable(req'.plan_code)
              THEN resp'.status_code = 404 /\ outbound' = outbound
              ELSE CalledOnce ]_vars

\* C18, with the case it leaves out: for a sellable plan, when the API key or the
\* store id is not configured, the answer is 500 and no outbound call is made;
\* when both are configured the call is made, and the answer is 502 or the URL.
C18_CheckoutOutcomesByConfiguration ==
    [][ CheckoutStep
        => /\ store' = store
           /\ IF ~Sellable(req'.plan_code)
              THEN resp'.status_code = 404 /\ outbound' = outbound
              ELSE IF ~Configured
              THEN resp'.status_code = 500 /\ outbound' = outbound
              ELSE CalledOnce ]_vars

\* Two requests for sellable plans: the call of the first failed, the second was
\* answered with the hosted checkout URL.
C18_Witness ==
    /\ phase = "done"
    /\ nDeliveries = 2
    /\ Len(outbound) = 2
    /\ CallFailed(outbound[1].response)
    /\ outbound[2].variant = "v2"
    /\ req.plan_code = "team"
    /\ resp = Response(200, CheckoutUrl)

\* The external id a cancelled, expired or payment_failed event is matched by
EndedExternalId(b) ==
    IF b.event_name # "subscription_payment_failed" /\ Present(b.id)
    THEN b.id
    ELSE b.subscription_id

\* The status each of the three event types stands for
ImpliedStatus(event_name) ==
    CASE event_name = "subscription_cancelled" -> "cancelled"
      [] event_name = "subscription_expired" -> "expired"
      [] event_name = "subscription_payment_failed" -> "payment_failed"

\* C19: a subscription_cancelled, _expired or _payment_failed event that matches a
\* row sets the status of one matched row to "cancelled", "expired" or
\* "payment_failed", whatever it was, and changes no other field, no other row and
\* no payment.
C19_EndedSetsOnlyStatus ==
    [][ ( /\ Handled
          /\ Dispatched(req')
          /\ req'.body.event_name \in
                 {"subscription_cancelled", "subscription_expired",
                  "subscription_payment_failed"}
          /\ RowsWithLemonId(subs, EndedExternalId(req'.body)) # {} )
        => /\ resp' = Ok
           /\ payments' = payments
           /\ \E i \in RowsWithLemonId(subs, EndedExternalId(req'.body)) :
                  subs' = [subs EXCEPT
                              ![i].status = ImpliedStatus(req'.body.event_name)] ]_vars

\* The second of two deliveries set u1's subscription to "payment_failed"; the row
\* is otherwise the one the store started with.
C19_Witness ==
    /\ phase = "done"
    /\ nDeliveries = MaxDeliveries
    /\ req.body.event_name = "subscription_payment_failed"
    /\ resp = Ok
    /\ Len(subs0) = 1
    /\ Len(subs) = 1
    /\ subs = [subs0 EXCEPT ![1].status = "payment_failed"]

\* The status a dispatched event carries or implies for a row it matches, and the
\* rows it is matched to: by owner for subscription_created, by external id otherwise.
StatusOf(b) ==
    IF b.event_name \in {"subscription_created", "subscription_updated"}
    THEN b.status
    ELSE ImpliedStatus(b.event_name)

RowsOf(b) ==
    CASE b.event_name = "subscription_created" ->
             IF EventPlan(b) = NULL \/ EventUser(b) = NULL \/ b.first_subscription_item = ABSENT
             THEN {}
             ELSE RowsOwnedBy(subs, EventUser(b))
      [] b.event_name = "subscription_updated" ->
             RowsWithLemonId(subs, b.first_subscription_item)
      [] b.event_name \in {"subscription_cancelled", "subscription_expired",
                           "subscription_payment_failed"} ->
             RowsWithLemonId(subs, EndedExternalId(b))
      [] OTHER -> {}

\* C20: each event handled writes the status it carries or implies onto a row it
\* matches, whatever status the row had (none is final), and an event that
\* matches no row or carries no status leaves every status as it was; so the
\* status of a row is the one written by the last such event delivered.
C20_LastStatusWins ==
    [][ (Handled /\ Dispatched(req'))
        => IF RowsOf(req'.body) # {} /\ StatusOf(req'.body) # NULL
           THEN \E i \in RowsOf(req'.body) :
                    /\ subs'[i].status = StatusOf(req'.body)
                    /\ \A j \in DOMAIN subs \ {i} : subs'[j].status = subs[j].status
           ELSE \A j \in DOMAIN subs : subs'[j].status = subs[j].status ]_vars

\* The first event delivered to a store whose one subscription was cancelled is
\* a subscription_updated with status "paused", and the subscription is paused.
C20_Witness ==
    /\ phase = "done"
    /\ nDeliveries = 1
    /\ ~redelivered
    /\ Len(subs0) = 1
    /\ subs0[1].status = "cancelled"
    /\ req.body.event_name = "subscription_updated"
    /\ req.body.status = "paused"
    /\ subs[1].status = "paused"

\* The row an event makes of the row it matched, when handled on its own
AppliedTo(row, b) ==
    CASE b.event_name = "subscription_created" -> Overwritten(row, b)
      [] b.event_name = "subscription_updated" ->
             [row EXCEPT
                 !.subscription_plan_id =
                     IF KnownVariant(b.variant_id) THEN EventPlan(b) ELSE @,
                 !.status = IF Present(b.status) THEN b.status ELSE @,
                 !.current_period_end =
                     IF parse_dt(b.renews_at) # NULL THEN parse_dt(b.renews_at) ELSE @]
      [] OTHER -> [row EXCEPT !.status = ImpliedStatus(b.event_name)]

\* What is left of a row when the columns in which `written` differs from `read`
\* are written over `now`
WrittenOver(now, read, written) ==
    [f \in DOMAIN now |-> IF written[f] # read[f] THEN written[f] ELSE now[f]]

\* Both workers have read row i, each has committed its event, and both were
\* answered {"ok": true}
BothCommitted(h, g, i) ==
    /\ h # g
    /\ i # 0
    /\ \A w \in {h, g} :
           /\ hs[w].pc = "done"
           /\ hs[w].resp = Ok
           /\ hs[w].loaded = i
           /\ hs[w].req.body.event_name \in
                  EndedTypes \cup {"subscription_created", "subscription_updated"}
    /\ hs[h].snapshot = hs[g].snapshot

\* C21: nothing serialises two handlers on a row. A handler that commits a row it
\* has read writes the columns its event changed in the row as it was read, and
\* only those, over the row as it is now: what another handler committed in the
\* meantime stays in the other columns and is lost in these, so the row two
\* interleaved handlers leave need not be the result of either serial order.
C21_CommitWritesChangedColumns ==
    [][\A h \in Handlers :
           (/\ hs[h].pc = "commit"
            /\ hs'[h].pc = "done"
            /\ hs'[h].resp = Ok
            /\ hs[h].loaded # 0
            /\ hs[h].req.body.event_name \in
                   EndedTypes \cup {"subscription_created", "subscription_updated"})
           => subs' = [subs EXCEPT ![hs[h].loaded] =
                          WrittenOver(@, hs[h].snapshot,
                                      AppliedTo(hs[h].snapshot, hs[h].req.body))]]_vars

\* The lost update: two handlers read the same row, both committed, and the row is
\* neither what the two events give in one serial order nor in the other.
C21_Witness ==
    \E h, g \in Handlers : \E i \in DOMAIN subs :
        /\ BothCommitted(h, g, i)
        /\ LET read == hs[h].snapshot
               a == hs[h].req.body
               b == hs[g].req.body
           IN  /\ subs[i] # AppliedTo(AppliedTo(read, a), b)
               /\ subs[i] # AppliedTo(AppliedTo(read, b), a)

\* C22: the user reference of a Payment that subscription_payment_success creates
\* is the user resolved from the event's hints when there is one; it is the owner
\* of the subscription matched by the external id only when the hints resolve to
\* nobody; and it is null only when there is neither.
C22_PaymentUserIsEventUserThenOwner ==
    [][ (Handled /\ payments' # payments)
        => LET b == req'.body
               row == payments'[Len(payments')]
               matched == RowsWithLemonId(subs, b.subscription_id)
           IN  /\ b.event_name = "subscription_payment_success"
               /\ EventUser(b) # NULL => row.user_id = EventUser(b)
               /\ EventUser(b) = NULL /\ matched # {}
                      => \E i \in matched : /\ row.user_id = subs[i].user_id
                                           /\ row.user_subscription_id = subs[i].id
               /\ row.user_id = NULL => (EventUser(b) = NULL /\ matched = {}) ]_vars

\* Both cases have happened: a payment on u1's subscription whose event named u2
\* is u2's, and a payment on it whose event named nobody has just become u1's.
C22_Witness ==
    /\ phase = "done"
    /\ ~redelivered
    /\ Len(payments) = 2
    /\ payments[1].user_subscription_id = "1"
    /\ payments[1].user_id = "u2"
    /\ req.body.event_name = "subscription_payment_success"
    /\ EventUser(req.body) = NULL
    /\ RowsWithLemonId(subs, req.body.subscription_id) = {1}
    /\ subs[1].user_id = "u1"
    /\ payments[2].user_subscription_id = "1"
    /\ payments[2].user_id = "u1"

\* The seven event types the handler has a branch for
RecognizedTypes ==
    EndedTypes \cup {"order_created", "subscription_created",
                     "subscription_payment_success", "subscription_updated"}

\* C23: an order_created event is answered {"ok": true}, an event of none of the
\* seven recognized types (one without an event name included) is answered
\* {"ignored": true}, and neither changes the store.
C23_OrderAndUnknownAreAcknowledged ==
    [][ (Handled /\ Authentic(req') /\ req'.body.wellformed)
        => /\ req'.body.event_name = "order_created"
                  => (resp' = Ok /\ store' = store)
           /\ req'.body.event_name \notin RecognizedTypes
                  => (resp' = Ignored /\ store' = store) ]_vars

\* C24: the payment ledger is append-only. No webhook request changes or removes
\* a Payment row that exists: after every step the ledger is the ledger before the
\* step, followed by the rows the step added.
C24_PaymentsAreAppendOnly ==
    [][ /\ Len(payments') >= Len(payments)
        /\ \A i \in DOMAIN payments : payments'[i] = payments[i] ]_vars

\* A Payment exists, and a second payment event on the same subscription and order
\* (the redelivery of the first) has been handled and answered {"ok": true}.
C24_Witness ==
    /\ phase = "done"
    /\ redelivered
    /\ resp = Ok
    /\ req.body.event_name = "subscription_payment_success"
    /\ Len(payments) = 2
    /\ payments[1].lemon_order_id = payments[2].lemon_order_id
    /\ payments[1].user_subscription_id = payments[2].user_subscription_id

\* C25: a subscription_updated event whose payload has the external id only as the
\* top-level subscription_id updates the row that carries it, and one whose
\* payload has the id in neither form is answered {"ok": true} and changes nothing.
C25_TopLevelIdIsRead ==
    [][ ( /\ Handled
          /\ Dispatched(req')
          /\ req'.body.event_name = "subscription_updated"
          /\ req'.body.first_subscription_item \in {ABSENT, NULL} )
        => LET b == req'.body
               matched == RowsWithLemonId(subs, b.subscription_id)
           IN  /\ (matched # {} /\ Present(b.status))
                      => (resp' = Ok /\ \E i \in matched : subs'[i].status = b.status)
               /\ b.subscription_id = NULL => (resp' = Ok /\ store' = store) ]_vars

\* C26: when a subscription_created event has replaced the external subscription
\* id of a user's row by another one, no row carries the previous id, so that a
\* later subscription_updated, _cancelled, _expired or _payment_failed event with
\* the previous id matches no row and leaves the subscription as it is.
C26_PreviousIdMatchesNoRow ==
    [][ ( /\ Handled
          /\ Dispatched(req')
          /\ req'.body.event_name = "subscription_created"
          /\ resp' = Ok )
        => \A i \in DOMAIN subs :
               ( /\ subs[i].lemon_subscription_id # NULL
                 /\ subs'[i].lemon_subscription_id # subs[i].lemon_subscription_id )
               => RowsWithLemonId(subs', subs[i].lemon_subscription_id) = {} ]_vars

\* C27: starting from an empty subscription table, no two rows ever carry the same
\* non-null external subscription id.
C27_ExternalIdsAreUnique ==
    subs0 = <<>>
    => \A i, j \in DOMAIN subs :
           ( /\ subs[i].lemon_subscription_id # NULL
             /\ subs[i].lemon_subscription_id = subs[j].lemon_subscription_id )
           => i = j

\* C28, as claimed: every Payment row that references a user and a subscription
\* references the owner of that subscription.
C28_PaymentUserIsOwner ==
    \A p \in DOMAIN payments : \A i \in DOMAIN subs :
        (payments[p].user_id # NULL /\ payments[p].user_subscription_id = subs[i].id)
        => payments[p].user_id = subs[i].user_id

\* C28, amended: a Payment row whose event's hints resolve to nobody, or to the
\* owner of the subscription it references, references that owner.
C28_PaymentUserIsOwnerUnlessEventNamesAnother ==
    [][ (Handled /\ payments' # payments)
        => LET row == payments'[Len(payments')]
           IN  \A i \in DOMAIN subs :
                   ( /\ row.user_subscription_id = subs[i].id
                     /\ EventUser(req'.body) \in {NULL, subs[i].user_id} )
                   => row.user_id = subs[i].user_id ]_vars

\* A payment event naming nobody on the subscription of u2, the second row of the
\* table, has been stored as u2's.
C28_Witness ==
    /\ phase = "done"
    /\ ~redelivered
    /\ req.body.event_name = "subscription_payment_success"
    /\ EventUser(req.body) = NULL
    /\ Len(subs) = 2
    /\ subs[2].user_id = "u2"
    /\ Len(payments) = 1
    /\ payments[1].user_subscription_id = subs[2].id
    /\ payments[1].user_id = "u2"

\* C29: no webhook event writes cancel_at_period_end, canceled_at or user_id of a
\* row: a row the webhook creates has cancel_at_period_end false and canceled_at
\* null, and every event, subscription_cancelled included, leaves the three
\* columns of every existing row as they are.
C29_CancellationColumnsAndOwnerAreNeverWritten ==
    [][ /\ Len(subs') >= Len(subs)
        /\ \A i \in DOMAIN subs :
               /\ subs'[i].cancel_at_period_end = subs[i].cancel_at_period_end
               /\ subs'[i].canceled_at = subs[i].canceled_at
               /\ subs'[i].user_id = subs[i].user_id
        /\ \A i \in DOMAIN subs' \ DOMAIN subs :
               /\ subs'[i].cancel_at_period_end = FALSE
               /\ subs'[i].canceled_at = NULL ]_vars

\* A row the webhook created has since been cancelled by a subscription_cancelled
\* event, and its flag is still false and its timestamp still null.
C29_Witness ==
    /\ subs0 = <<>>
    /\ phase = "done"
    /\ resp = Ok
    /\ req.body.event_name = "subscription_cancelled"
    /\ Len(subs) = 1
    /\ subs[1].status = "cancelled"
    /\ subs[1].cancel_at_period_end = FALSE
    /\ subs[1].canceled_at = NULL

\* The timestamps recorded for an email that are inside the window now
RecordedInWindow(e) ==
    IF password_recovery_attempts[e] = 0
    THEN {}
    ELSE LET recorded == lists[password_recovery_attempts[e]]
         IN  {i \in DOMAIN recorded : clock - recorded[i] < RATE_LIMIT_WINDOW}

\* C30: the list recorded for an email never holds more than MAX_ATTEMPTS_PER_HOUR
\* timestamps inside the window, whether the calls of check_rate_limit for it run
\* one after the other or at the same time, and a call that is rejected records
\* nothing.
C30_AtMostThreeAttemptsInWindow ==
    [][ /\ \A e \in Emails :
               Cardinality(RecordedInWindow(e))' <= MAX_ATTEMPTS_PER_HOUR
        /\ \A t \in Threads :
               (callers[t].pc = "l80" /\ callers'[t].pc = "l136")
               => (lists' = lists /\ callers'[t].result = FALSE) ]_vars

====
